---------------------------- MODULE Spec2Model ----------------------------
(***************************************************************************)
(* A model of the si8900 UART stack (src/si8900.c, src/si8900.h): the      *)
(* auto-baud handshake, the command sender and the packet decoder.         *)
(*                                                                         *)
(* The UART peripheral is the environment: it raises the receive flag with *)
(* a byte in the receive buffer and raises the transmit flag when the      *)
(* transmit buffer is free again.  The program is one thread; its blocking *)
(* loops are cut at their polls, where the peripheral may act.             *)
(***************************************************************************)
EXTENDS Integers, Sequences, FiniteSets, TLC

(***************************************************************************)
(* Bounds of the model.                                                    *)
(***************************************************************************)
\* bytes the device delivers during one call of a transport operation
MaxRx == 4
\* writes of the handshake's wait loop that are counted and logged
MaxPolls == 3
\* attempts of an oversampled read before which the buffer is refreshed
MaxSamples == 3
\* a sample count large enough for the 16-bit sum of full-scale readings to wrap
WrapSamples == 65

(***************************************************************************)
(* Constants of si8900.h.                                                  *)
(***************************************************************************)
PGA_0 == 0
PGA_1 == 1
MODE_0 == 0
MODE_1 == 2
REF_0 == 0
REF_1 == 8
INCH_0 == 192
INCH_1 == 208
INCH_2 == 224
CAL_BYTE == 170
CONFIRM == 85
FAILED == 255

(***************************************************************************)
(* C's bitwise operators on non-negative integers.                         *)
(***************************************************************************)
RECURSIVE BitAnd(_, _)
BitAnd(a, b) ==
    IF a = 0 \/ b = 0 THEN 0
    ELSE (IF a % 2 = 1 /\ b % 2 = 1 THEN 1 ELSE 0) + 2 * BitAnd(a \div 2, b \div 2)

RECURSIVE BitOr(_, _)
BitOr(a, b) ==
    IF a = 0 THEN b
    ELSE IF b = 0 THEN a
    ELSE (IF a % 2 = 1 \/ b % 2 = 1 THEN 1 ELSE 0) + 2 * BitOr(a \div 2, b \div 2)

Shl(a, n) == a * 2^n

Shr(a, n) == a \div 2^n

\* conversions to the fixed-width unsigned types
U8(x) == x % 256

U16(x) == x % 65536

GP_SINGLE_READ_0 == U8(BitOr(BitOr(BitOr(INCH_0, REF_0), MODE_1), PGA_0))

GP_SINGLE_READ_1 == U8(BitOr(BitOr(BitOr(INCH_1, REF_0), MODE_1), PGA_0))

GP_SINGLE_READ_2 == U8(BitOr(BitOr(BitOr(INCH_2, REF_0), MODE_1), PGA_0))

(***************************************************************************)
(* The inputs the model draws from.                                        *)
(***************************************************************************)
\* command bytes a caller sends
Commands == {GP_SINGLE_READ_0, GP_SINGLE_READ_2}

\* bytes the device may deliver
RxBytes == {CONFIRM, CAL_BYTE, GP_SINGLE_READ_0, GP_SINGLE_READ_2}

VARIABLES
    pc,             \* where the program is
    UART_IFG_REG,   \* the interrupt flags that are set
    UART_TX_BUFF,   \* last byte written to the transmit buffer
    UART_RX_BUFF,   \* byte in the receive buffer
    hold_value,     \* last byte read (si8900_auto_baud, si8900_send_cmd)
    Code_receive,   \* si8900_auto_baud
    Code_confirm,   \* si8900_auto_baud
    cmd_byte,       \* argument of si8900_send_cmd
    retval,         \* <<v>> once a function has returned v, <<>> otherwise
    polls,          \* history: the writes of the wait loop of line 74, up to MaxPolls
    txlog,          \* history: the bytes written to UART_TX_BUFF in this call
    rxlog,          \* history: the bytes read from UART_RX_BUFF in this call
    buffer,         \* the caller's packet buffer, buffer[0..2]
    ref_byte,       \* argument of si8900_get_reading(_oversampled)
    new_read,       \* what si8900_get_reading returned
    sample_count,   \* argument of si8900_get_reading_oversampled
    i,              \* si8900_get_reading_oversampled
    entries,        \* si8900_get_reading_oversampled
    vals,           \* si8900_get_reading_oversampled
    temp,           \* si8900_get_reading_oversampled
    device,         \* history: <<channel, reading>> the device put in buffer, or <<>>
    matched,        \* history: the attempts whose echo byte matched ref_byte
    matchedSum,     \* history: the sum of the readings decoded in those attempts
    inRange,        \* history: all those readings were in 0..1023
    divzero,        \* history: vals / entries was evaluated with entries = 0
    selection,      \* history: the settings the command byte in flight stands for
    num,            \* argument of bit_reverse
    reverse,        \* what bit_reverse(num) returned
    twice           \* what bit_reverse(reverse) returned

linkVars == <<UART_IFG_REG, UART_TX_BUFF, UART_RX_BUFF, hold_value,
              Code_receive, Code_confirm, cmd_byte, retval, polls, txlog,
              rxlog>>

codecVars == <<buffer, ref_byte, new_read, sample_count, i, entries, vals,
               temp, device, matched, matchedSum, inRange, divzero>>

bitVars == <<num, reverse, twice>>

vars == <<pc, linkVars, codecVars, selection, bitVars>>

\* the settings of a command byte: how it was chosen (kind), and the index
\* of the value taken in each of the four fields
Selection(kind, pga, mode, ref, inch) ==
    [kind |-> kind, pga |-> pga, mode |-> mode, ref |-> ref, inch |-> inch]

NoSelection == Selection("none", 0, 0, 0, 0)

UART_RX_IFG == "UCRXIFG"

UART_TX_IFG == "UCTXIFG"

(***************************************************************************)
(* The state after reset: the transmitter is free, nothing was received.   *)
(***************************************************************************)
LinkInit ==
    /\ UART_IFG_REG = {UART_TX_IFG}
    /\ UART_TX_BUFF = 0
    /\ UART_RX_BUFF = 0
    /\ hold_value = 0
    /\ Code_receive = 0
    /\ Code_confirm = 0
    /\ cmd_byte = 0
    /\ retval = <<>>
    /\ polls = 0
    /\ txlog = <<>>
    /\ rxlog = <<>>

\* a buffer of three bytes, indexed as in C
Packet(b0, b1, b2) == [n \in 0..2 |-> IF n = 0 THEN b0 ELSE IF n = 1 THEN b1 ELSE b2]

\* a si8900_reading
Reading(cmd, inch, reading) == [cmd_byte |-> cmd, inch |-> inch, reading |-> reading]

CodecInit ==
    /\ buffer = Packet(0, 0, 0)
    /\ ref_byte = 0
    /\ new_read = Reading(0, 0, 0)
    /\ sample_count = 0
    /\ i = 0
    /\ entries = 0
    /\ vals = 0
    /\ temp = Reading(0, 0, 0)
    /\ device = <<>>
    /\ matched = 0
    /\ matchedSum = 0
    /\ inRange = TRUE
    /\ divzero = FALSE

Init ==
    /\ pc = "idle"
    /\ LinkInit
    /\ CodecInit
    /\ selection = NoSelection
    /\ num = 0
    /\ reverse = 0
    /\ twice = 0

(***************************************************************************)
(* The peripheral.                                                         *)
(***************************************************************************)
\* a byte arrives: the receive buffer holds it and the receive flag is set
DeviceSend(b) ==
    /\ UART_RX_IFG \notin UART_IFG_REG
    /\ Len(rxlog) < MaxRx
    /\ UART_RX_BUFF' = b
    /\ UART_IFG_REG' = UART_IFG_REG \cup {UART_RX_IFG}
    /\ UNCHANGED <<pc, UART_TX_BUFF, hold_value, Code_receive, Code_confirm,
                   cmd_byte, retval, polls, txlog, rxlog>>
    /\ UNCHANGED codecVars
    /\ UNCHANGED <<selection, bitVars>>

\* the transmit buffer was moved to the shift register: the flag is set
TxDone ==
    /\ UART_TX_IFG \notin UART_IFG_REG
    /\ UART_IFG_REG' = UART_IFG_REG \cup {UART_TX_IFG}
    /\ UNCHANGED <<pc, UART_TX_BUFF, UART_RX_BUFF, hold_value, Code_receive,
                   Code_confirm, cmd_byte, retval, polls, txlog, rxlog>>
    /\ UNCHANGED codecVars
    /\ UNCHANGED <<selection, bitVars>>

(***************************************************************************)
(* si8900_auto_baud                                                        *)
(***************************************************************************)
\* the loop condition of line 72
AutoBaudLooping(receive, confirm) == BitAnd(receive, confirm) = 0

\* fault: a byte other than CONFIRM does not clear Code_receive
AutoBaudEvaluate_NoReset(receive, confirm, hold) ==
    IF hold = CONFIRM
    THEN [Code_receive |-> 1,
          Code_confirm |-> IF receive = 1 THEN 1 ELSE confirm,
          sent |-> <<CAL_BYTE>>]
    ELSE [Code_receive |-> receive,
          Code_confirm |-> 0,
          sent |-> <<CAL_BYTE, CAL_BYTE>>]

\* fault: the second CONFIRM sets Code_receive again, not Code_confirm
AutoBaudEvaluate_NeverConfirm(receive, confirm, hold) ==
    IF hold = CONFIRM
    THEN [Code_receive |-> 1,
          Code_confirm |-> confirm,
          sent |-> <<CAL_BYTE>>]
    ELSE [Code_receive |-> 0,
          Code_confirm |-> 0,
          sent |-> <<CAL_BYTE, CAL_BYTE>>]

\* lines 77-93: the flags after a received byte was evaluated, and the
\* bytes written to the transmit buffer while doing so
AutoBaudEvaluate(receive, confirm, hold) ==
    IF hold = CONFIRM
    THEN [Code_receive |-> 1,
          Code_confirm |-> IF receive = 1 THEN 1 ELSE confirm,
          sent |-> <<CAL_BYTE>>]
    ELSE [Code_receive |-> 0,
          Code_confirm |-> 0,
          sent |-> <<CAL_BYTE, CAL_BYTE>>]

\* lines 67-72: the first timing sample is written, the loop is entered
AutoBaudCall ==
    /\ pc = "idle"
    /\ hold_value' = 0
    /\ UART_TX_BUFF' = CAL_BYTE
    /\ UART_IFG_REG' = UART_IFG_REG \ {UART_TX_IFG}
    /\ Code_receive' = 0
    /\ Code_confirm' = 0
    /\ polls' = 0
    /\ txlog' = <<CAL_BYTE>>
    /\ rxlog' = <<>>
    /\ retval' = <<>>
    /\ pc' = IF AutoBaudLooping(0, 0) THEN "ab_wait" ELSE "ab_ret"
    /\ UNCHANGED <<UART_RX_BUFF, cmd_byte>>
    /\ UNCHANGED codecVars
    /\ UNCHANGED <<selection, bitVars>>

\* lines 74-75: the wait loop's body is the statement of line 75 (line 74
\* ends without a semicolon), so every unsuccessful poll writes CAL_BYTE
AutoBaudPoll ==
    /\ pc = "ab_wait"
    /\ UART_RX_IFG \notin UART_IFG_REG
    /\ UART_TX_BUFF' = CAL_BYTE
    /\ UART_IFG_REG' = UART_IFG_REG \ {UART_TX_IFG}
    /\ polls' = IF polls < MaxPolls THEN polls + 1 ELSE polls
    /\ txlog' = IF polls < MaxPolls THEN Append(txlog, CAL_BYTE) ELSE txlog
    /\ UNCHANGED <<pc, UART_RX_BUFF, hold_value, Code_receive, Code_confirm,
                   cmd_byte, retval, rxlog>>
    /\ UNCHANGED codecVars
    /\ UNCHANGED <<selection, bitVars>>

\* lines 76-94 and the loop condition: one received byte is read and evaluated.
\* hold_value is a char: whether char is signed or not, it equals CONFIRM
\* (0x55 < 0x80) exactly when the byte read is 0x55, so the byte is kept as read
AutoBaudReceive ==
    /\ pc = "ab_wait"
    /\ UART_RX_IFG \in UART_IFG_REG
    /\ LET e == AutoBaudEvaluate(Code_receive, Code_confirm, UART_RX_BUFF)
       IN  /\ hold_value' = UART_RX_BUFF
           /\ rxlog' = Append(rxlog, UART_RX_BUFF)
           /\ Code_receive' = e.Code_receive
           /\ Code_confirm' = e.Code_confirm
           /\ UART_TX_BUFF' = CAL_BYTE
           /\ txlog' = txlog \o e.sent
           /\ UART_IFG_REG' = UART_IFG_REG \ {UART_RX_IFG, UART_TX_IFG}
           /\ IF AutoBaudLooping(e.Code_receive, e.Code_confirm)
              THEN pc' = "ab_wait" /\ retval' = retval
              ELSE pc' = "ab_ret" /\ retval' = <<0>>
    /\ UNCHANGED <<UART_RX_BUFF, cmd_byte, polls>>
    /\ UNCHANGED codecVars
    /\ UNCHANGED <<selection, bitVars>>

(***************************************************************************)
(* si8900_send_cmd                                                         *)
(***************************************************************************)
\* fault: the loop condition is inverted
SendCmdRetry_Inverted(hold, cmd) == hold = cmd

\* the loop condition of line 223
SendCmdRetry(hold, cmd) == hold # cmd

\* lines 215-218: the argument is taken, the loop is entered
SendCmdEnter(cmd) ==
    /\ pc = "idle"
    /\ cmd_byte' = cmd
    /\ polls' = 0
    /\ txlog' = <<>>
    /\ rxlog' = <<>>
    /\ retval' = <<>>
    /\ pc' = "sc_txwait"
    /\ UNCHANGED <<UART_IFG_REG, UART_TX_BUFF, UART_RX_BUFF, hold_value,
                   Code_receive, Code_confirm>>
    /\ UNCHANGED codecVars
    /\ UNCHANGED bitVars

\* a call with a command byte of the caller's
SendCmdCall(cmd) ==
    /\ SendCmdEnter(cmd)
    /\ UNCHANGED selection

\* lines 219-220: the transmitter is ready, the command is written
SendCmdTransmit ==
    /\ pc = "sc_txwait"
    /\ UART_TX_IFG \in UART_IFG_REG
    /\ UART_TX_BUFF' = cmd_byte
    /\ UART_IFG_REG' = UART_IFG_REG \ {UART_TX_IFG}
    /\ txlog' = Append(txlog, cmd_byte)
    /\ pc' = "sc_rxwait"
    /\ UNCHANGED <<UART_RX_BUFF, hold_value, Code_receive, Code_confirm,
                   cmd_byte, retval, polls, rxlog>>
    /\ UNCHANGED codecVars
    /\ UNCHANGED <<selection, bitVars>>

\* lines 221-223: the response is read and compared with the command
SendCmdReceive ==
    /\ pc = "sc_rxwait"
    /\ UART_RX_IFG \in UART_IFG_REG
    /\ hold_value' = UART_RX_BUFF
    /\ UART_IFG_REG' = UART_IFG_REG \ {UART_RX_IFG}
    /\ rxlog' = Append(rxlog, UART_RX_BUFF)
    /\ pc' = IF SendCmdRetry(UART_RX_BUFF, cmd_byte) THEN "sc_txwait" ELSE "sc_ret"
    /\ UNCHANGED <<UART_TX_BUFF, UART_RX_BUFF, Code_receive, Code_confirm,
                   cmd_byte, retval, polls, txlog>>
    /\ UNCHANGED codecVars
    /\ UNCHANGED <<selection, bitVars>>

(***************************************************************************)
(* The caller takes the result; the locals of the call are gone.           *)
(***************************************************************************)
Return ==
    /\ pc \in {"ab_ret", "sc_ret"}
    /\ pc' = "idle"
    /\ hold_value' = 0
    /\ Code_receive' = 0
    /\ Code_confirm' = 0
    /\ cmd_byte' = 0
    /\ retval' = <<>>
    /\ polls' = 0
    /\ txlog' = <<>>
    /\ rxlog' = <<>>
    /\ UNCHANGED <<UART_IFG_REG, UART_TX_BUFF, UART_RX_BUFF>>
    /\ UNCHANGED codecVars
    /\ selection' = NoSelection
    /\ UNCHANGED bitVars

Device ==
    \/ \E b \in RxBytes : DeviceSend(b)
    \/ TxDone

Program ==
    \/ AutoBaudCall
    \/ AutoBaudPoll
    \/ AutoBaudReceive
    \/ \E cmd \in Commands : SendCmdCall(cmd)
    \/ SendCmdTransmit
    \/ SendCmdReceive
    \/ Return

Next ==
    \/ Device
    \/ Program

Spec == Init /\ [][Next]_vars

\* the program always runs; the transmitter always finishes a byte; the
\* device is free to stay silent
FairSpec == Spec /\ WF_vars(Program) /\ WF_vars(TxDone)

(***************************************************************************)
(* Command bytes: the field constants of si8900.h, combined with |, and    *)
(* the preconfigured bytes, sent with si8900_send_cmd.                     *)
(***************************************************************************)
\* PGA_x of setting p: 0 is the gain of .5, 1 the gain of 1
PgaField(p) == IF p = 0 THEN PGA_0 ELSE PGA_1

\* fault: the stream mode is bit 2
ModeField_Bit2(m) == IF m = 0 THEN MODE_0 ELSE 2 * MODE_1

\* MODE_x of setting m: 0 is the single read, 1 the stream read
ModeField(m) == IF m = 0 THEN MODE_0 ELSE MODE_1

\* REF_x of setting v: 0 is VDD, 1 the external reference pin
RefField(v) == IF v = 0 THEN REF_0 ELSE REF_1

\* INCH_x of input channel n
InchField(n) == IF n = 0 THEN INCH_0 ELSE IF n = 1 THEN INCH_1 ELSE INCH_2

\* ( (uint8_t)(<PGA_x> | <MODE_x> | <REF_x> | <INCH_x>) )
si8900_cfg(pga, mode, ref, inch) == U8(BitOr(BitOr(BitOr(pga, mode), ref), inch))

\* GP_SINGLE_READ_n
GP_SINGLE_READ(n) ==
    IF n = 0 THEN GP_SINGLE_READ_0
    ELSE IF n = 1 THEN GP_SINGLE_READ_1 ELSE GP_SINGLE_READ_2

\* a command byte is built from one value of each field and sent
SendBuiltCmd(p, m, v, n) ==
    /\ SendCmdEnter(si8900_cfg(PgaField(p), ModeField(m), RefField(v), InchField(n)))
    /\ selection' = Selection("fields", p, m, v, n)

\* GP_SINGLE_READ_n is sent: by its name and the comment of si8900.h:94-96
\* a single read of channel n, with si8900.h:97-99's REF_0 and PGA_0
SendPresetCmd(n) ==
    /\ SendCmdEnter(GP_SINGLE_READ(n))
    /\ selection' = Selection("preset", 0, 0, 0, n)

\* the device echoes the command byte it was sent
DeviceEcho ==
    /\ pc = "sc_rxwait"
    /\ DeviceSend(UART_TX_BUFF)

CmdNext ==
    \/ \E p \in 0..1, m \in 0..1, v \in 0..1, n \in 0..2 : SendBuiltCmd(p, m, v, n)
    \/ \E n \in 0..2 : SendPresetCmd(n)
    \/ DeviceEcho
    \/ Device
    \/ SendCmdTransmit
    \/ SendCmdReceive
    \/ Return

CmdSpec == Init /\ [][CmdNext]_vars

(***************************************************************************)
(* The packet decoder: the macros of si8900.h and si8900_get_reading.      *)
(***************************************************************************)
\* ((uint16_t)(((uint16_t)b1) << 7 | b2))
PACKET_JOIN(b1, b2) == U16(BitOr(U16(Shl(U16(b1), 7)), b2))

\* ((uint8_t)((packet & 0x30) >> 4))
GET_INCH(packet) == U8(Shr(BitAnd(packet, 48), 4))

\* ((uint16_t)((packet & 0x0FFE) >> 1))
GET_READING(packet) == U16(Shr(BitAnd(packet, 4094), 1))

\* fault: the reference byte is not compared
si8900_get_reading_Unchecked(buf, ref) ==
    Reading(buf[0], GET_INCH(buf[1]), GET_READING(PACKET_JOIN(buf[1], buf[2])))

si8900_get_reading(buf, ref) ==
    IF buf[0] = ref
    THEN Reading(buf[0], GET_INCH(buf[1]), GET_READING(PACKET_JOIN(buf[1], buf[2])))
    ELSE Reading(buf[0], FAILED, FAILED)

\* the response of the device to cmd with reading r of channel c:
\* cmd echo, 1 0 INCH{2} D9-D6{4}, 0 D5-D0{6} 0
DeviceResponse(cmd, c, r) ==
    Packet(cmd, 128 + 16 * c + (r \div 64), 2 * (r % 64))

\* the echo bytes and reference bytes of the packets decoded
EchoBytes == {GP_SINGLE_READ_0, FAILED}

RefBytes == {GP_SINGLE_READ_0, GP_SINGLE_READ_1}

\* si8900_get_reading on any data bytes
GetReadingOfBytes(b0, b1, b2, ref) ==
    /\ pc = "idle"
    /\ buffer' = Packet(b0, b1, b2)
    /\ ref_byte' = ref
    /\ device' = <<>>
    /\ new_read' = si8900_get_reading(Packet(b0, b1, b2), ref)
    /\ pc' = "gr_ret"
    /\ UNCHANGED <<sample_count, i, entries, vals, temp, matched, matchedSum,
                   inRange, divzero>>
    /\ UNCHANGED linkVars
    /\ UNCHANGED <<selection, bitVars>>

\* si8900_get_reading on the device's response to the command ref
GetReadingOfResponse(ref, c, r) ==
    /\ pc = "idle"
    /\ buffer' = DeviceResponse(ref, c, r)
    /\ ref_byte' = ref
    /\ device' = <<c, r>>
    /\ new_read' = si8900_get_reading(DeviceResponse(ref, c, r), ref)
    /\ pc' = "gr_ret"
    /\ UNCHANGED <<sample_count, i, entries, vals, temp, matched, matchedSum,
                   inRange, divzero>>
    /\ UNCHANGED linkVars
    /\ UNCHANGED <<selection, bitVars>>

GetReadingReturn ==
    /\ pc = "gr_ret"
    /\ pc' = "idle"
    /\ buffer' = Packet(0, 0, 0)
    /\ ref_byte' = 0
    /\ device' = <<>>
    /\ new_read' = Reading(0, 0, 0)
    /\ UNCHANGED <<sample_count, i, entries, vals, temp, matched, matchedSum,
                   inRange, divzero>>
    /\ UNCHANGED linkVars
    /\ UNCHANGED <<selection, bitVars>>

DecodeCall ==
    /\ pc = "idle"
    /\ \/ \E b0 \in EchoBytes, b1 \in 0..255, b2 \in 0..255, ref \in RefBytes :
             GetReadingOfBytes(b0, b1, b2, ref)
       \/ \E ref \in RefBytes, c \in 0..2, r \in 0..1023 :
             GetReadingOfResponse(ref, c, r)

DecodeNext ==
    \/ DecodeCall
    \/ GetReadingReturn

DecodeSpec == Init /\ [][DecodeNext]_vars

(***************************************************************************)
(* si8900_get_reading_oversampled.  The function reads the same buffer in  *)
(* every attempt; whoever fills the buffer may overwrite it between two    *)
(* attempts, which the model allows before the first MaxSamples attempts.  *)
(***************************************************************************)
\* the sample counts a caller asks for
SampleCounts == (0..MaxSamples) \cup {WrapSamples}

\* the packets the buffer is filled with
OsBuffers ==
    { DeviceResponse(GP_SINGLE_READ_0, 0, 1023),
      DeviceResponse(GP_SINGLE_READ_0, 0, 255),
      DeviceResponse(GP_SINGLE_READ_0, 0, 10),
      DeviceResponse(GP_SINGLE_READ_2, 2, 512) }

\* values of the uninitialised local temp
UninitReadings == {Reading(0, 0, 0), Reading(FAILED, FAILED, 65535)}

\* results a division by zero may leave, where it does not trap
DivZeroValues == {0, FAILED, 65535}

\* lines 180-183: the locals; temp is not initialised
OversampleCall(ref, count, garbage) ==
    /\ pc = "idle"
    /\ ref_byte' = ref
    /\ sample_count' = count
    /\ i' = 0
    /\ entries' = 0
    /\ vals' = 0
    /\ temp' = garbage
    /\ matched' = 0
    /\ matchedSum' = 0
    /\ inRange' = TRUE
    /\ divzero' = FALSE
    /\ pc' = "os_loop"
    /\ UNCHANGED <<buffer, new_read, device>>
    /\ UNCHANGED linkVars
    /\ UNCHANGED <<selection, bitVars>>

\* lines 186-190: the sum and the count after one attempt
OversampleAccumulate(sum, count, reading) ==
    IF reading # FAILED
    THEN [vals |-> U16(sum + reading), entries |-> U8(count + 1)]
    ELSE [vals |-> sum, entries |-> count]

\* lines 183-191: one attempt, on the packet b the buffer holds by then
OversampleAttempt(b) ==
    /\ pc = "os_loop"
    /\ i < sample_count
    /\ b \in (IF i < MaxSamples THEN OsBuffers ELSE {buffer})
    /\ LET t == si8900_get_reading(b, ref_byte)
           a == OversampleAccumulate(vals, entries, t.reading)
       IN  /\ buffer' = b
           /\ temp' = t
           /\ vals' = a.vals
           /\ entries' = a.entries
           /\ matched' = IF b[0] = ref_byte THEN matched + 1 ELSE matched
           /\ matchedSum' = IF b[0] = ref_byte THEN matchedSum + t.reading
                                               ELSE matchedSum
           /\ inRange' = (inRange /\ (b[0] = ref_byte => t.reading \in 0..1023))
    /\ i' = U8(i + 1)
    /\ UNCHANGED <<pc, ref_byte, new_read, sample_count, device, divzero>>
    /\ UNCHANGED linkVars
    /\ UNCHANGED <<selection, bitVars>>

\* lines 192-193 with entries # 0
OversampleDivide ==
    /\ pc = "os_loop"
    /\ ~(i < sample_count)
    /\ entries # 0
    /\ temp' = [temp EXCEPT !.reading = U16(vals \div entries)]
    /\ pc' = "os_ret"
    /\ UNCHANGED <<buffer, ref_byte, new_read, sample_count, i, entries, vals,
                   device, matched, matchedSum, inRange, divzero>>
    /\ UNCHANGED linkVars
    /\ UNCHANGED <<selection, bitVars>>

\* lines 192-193 with entries = 0: the division is undefined; it traps, or
\* it leaves some value
OversampleDivideByZero ==
    /\ pc = "os_loop"
    /\ ~(i < sample_count)
    /\ entries = 0
    /\ divzero' = TRUE
    /\ \/ pc' = "os_trap" /\ temp' = temp
       \/ \E v \in DivZeroValues :
             /\ pc' = "os_ret"
             /\ temp' = [temp EXCEPT !.reading = v]
    /\ UNCHANGED <<buffer, ref_byte, new_read, sample_count, i, entries, vals,
                   device, matched, matchedSum, inRange>>
    /\ UNCHANGED linkVars
    /\ UNCHANGED <<selection, bitVars>>

OversampleReturn ==
    /\ pc = "os_ret"
    /\ pc' = "idle"
    /\ buffer' = Packet(0, 0, 0)
    /\ ref_byte' = 0
    /\ sample_count' = 0
    /\ i' = 0
    /\ entries' = 0
    /\ vals' = 0
    /\ temp' = Reading(0, 0, 0)
    /\ matched' = 0
    /\ matchedSum' = 0
    /\ inRange' = TRUE
    /\ divzero' = FALSE
    /\ UNCHANGED <<new_read, device>>
    /\ UNCHANGED linkVars
    /\ UNCHANGED <<selection, bitVars>>

OversampleNext ==
    \/ \E ref \in Commands, count \in SampleCounts, garbage \in UninitReadings :
          OversampleCall(ref, count, garbage)
    \/ \E b \in OsBuffers : OversampleAttempt(b)
    \/ OversampleDivide
    \/ OversampleDivideByZero
    \/ OversampleReturn

OversampleSpec == Init /\ [][OversampleNext]_vars

(***************************************************************************)
(* bit_reverse                                                             *)
(***************************************************************************)
\* sizeof(uint16_t) and sizeof(uint8_t), in bytes
SizeofU16 == 2

SizeofU8 == 1

\* x << n assigned to a uint16_t: defined while n is less than the width of
\* the promoted operand; a larger count is undefined, and leaves nothing of
\* x (a shift loop, a count above the register width) or x shifted by the
\* count the shifter keeps (n mod 16)
ShiftLeftAssign(x, n) ==
    IF n < 16 THEN {U16(Shl(x, n))}
    ELSE {0, U16(Shl(x, n % 16))}

\* lines 31-36: the loop, from the value of num after `num >>= 1`
RECURSIVE BitReverseLoop(_, _, _)
BitReverseLoop(n, rev, size) ==
    IF n = 0 THEN [reverse |-> rev, size |-> size]
    ELSE BitReverseLoop(Shr(n, 1),
                        BitOr(U16(Shl(rev, 1)), BitAnd(n, 1)),
                        U8(size - 1))

\* lines 27-39: the values bit_reverse(n) may return
bit_reverse(n) ==
    LET size == U8(SizeofU16 * SizeofU8 - 1)
        end == BitReverseLoop(Shr(n, 1), n, size)
    IN  ShiftLeftAssign(end.reverse, end.size)

\* the words bit_reverse is called with
Words == 0..65535

BitReverseCall(n) ==
    /\ num' = n
    /\ reverse' \in bit_reverse(n)
    /\ twice' = 0
    /\ pc' = "br_ret"
    /\ UNCHANGED <<linkVars, codecVars, selection>>

\* the result is reversed again
BitReverseAgain ==
    /\ pc = "br_ret"
    /\ twice' \in bit_reverse(reverse)
    /\ pc' = "br_ret2"
    /\ UNCHANGED <<num, reverse>>
    /\ UNCHANGED <<linkVars, codecVars, selection>>

BitReverseReturn ==
    /\ pc \in {"br_ret", "br_ret2"}
    /\ pc' = "idle"
    /\ num' = 0
    /\ reverse' = 0
    /\ twice' = 0
    /\ UNCHANGED <<linkVars, codecVars, selection>>

BitReverseStart ==
    /\ pc = "idle"
    /\ \E n \in Words : BitReverseCall(n)

BitNext ==
    \/ BitReverseStart
    \/ BitReverseAgain
    \/ BitReverseReturn

BitSpec == Init /\ [][BitNext]_vars

(***************************************************************************)
(* Properties of the transport operations.                                 *)
(***************************************************************************)
Last(s) == s[Len(s)]

SeqRange(s) == {s[n] : n \in 1..Len(s)}

\* C1: the handshake reports success (returns 0) only when the last two
\* bytes it read were both CONFIRM, one directly after the other; after
\* reading CONFIRM, another byte, CONFIRM it has not reported success.
C1_SuccessOnlyAfterTwoConfirms ==
    /\ (pc = "ab_ret" \/ retval = <<0>>) =>
          /\ retval = <<0>>
          /\ Len(rxlog) >= 2
          /\ rxlog[Len(rxlog)] = CONFIRM
          /\ rxlog[Len(rxlog) - 1] = CONFIRM
    /\ (/\ Len(rxlog) = 3
        /\ rxlog[1] = CONFIRM
        /\ rxlog[2] # CONFIRM
        /\ rxlog[3] = CONFIRM) => pc # "ab_ret"

\* the handshake succeeded on the fourth byte, after CONFIRM, other, CONFIRM
C1_Witness ==
    /\ pc = "ab_ret"
    /\ rxlog = <<CONFIRM, CAL_BYTE, CONFIRM, CONFIRM>>

\* a CONFIRM byte was delivered to the handshake in flight
ConfirmDelivered ==
    \/ CONFIRM \in SeqRange(rxlog)
    \/ UART_RX_IFG \in UART_IFG_REG /\ UART_RX_BUFF = CONFIRM

\* C2: a handshake that is never delivered a CONFIRM byte (or no byte at
\* all) ends, returning a timeout error (a value other than 0).
C2_HandshakeTimesOut ==
    (pc = "ab_wait") ~> (ConfirmDelivered \/ (pc = "ab_ret" /\ retval # <<0>>))

\* C9: si8900_send_cmd returns only directly after reading a byte equal to
\* cmd_byte; every other byte read is followed by one more write of cmd_byte
\* and one more read: the writes and the reads alternate, every byte written
\* is cmd_byte, and only the last byte read, at the return, equals cmd_byte.
C9_SendCmdEcho ==
    pc \in {"sc_txwait", "sc_rxwait", "sc_ret"} =>
       /\ \A n \in 1..Len(txlog) : txlog[n] = cmd_byte
       /\ \A n \in 1..(Len(rxlog) - 1) : rxlog[n] # cmd_byte
       /\ pc = "sc_txwait" =>
             /\ Len(txlog) = Len(rxlog)
             /\ \A n \in 1..Len(rxlog) : rxlog[n] # cmd_byte
       /\ pc = "sc_rxwait" =>
             /\ Len(txlog) = Len(rxlog) + 1
             /\ \A n \in 1..Len(rxlog) : rxlog[n] # cmd_byte
       /\ pc = "sc_ret" =>
             /\ Len(rxlog) >= 1
             /\ Len(txlog) = Len(rxlog)
             /\ Last(rxlog) = cmd_byte
             /\ hold_value = cmd_byte

\* si8900_send_cmd returned after two mismatching echoes
C9_Witness ==
    /\ pc = "sc_ret"
    /\ Len(rxlog) = 3
    /\ Len(txlog) = 3

\* the echo of the command in flight was delivered
EchoDelivered ==
    \/ cmd_byte \in SeqRange(rxlog)
    \/ UART_RX_IFG \in UART_IFG_REG /\ UART_RX_BUFF = cmd_byte

\* C10: si8900_send_cmd ends even when the device never echoes cmd_byte or
\* never answers: after a bounded number of retries it returns.
C10_SendCmdTerminates ==
    (pc \in {"sc_txwait", "sc_rxwait"}) ~> (EchoDelivered \/ pc = "sc_ret")

(***************************************************************************)
(* Properties of the decoder.                                              *)
(***************************************************************************)
\* C3: a response built from channel c in 0..2 and reading r in 0..1023 as
\* the wire format says, with the echo byte equal to the reference byte,
\* decodes to exactly channel c and value r.
C3_RoundTrip ==
    (pc = "gr_ret" /\ device # <<>>) =>
       /\ new_read.inch = device[1]
       /\ new_read.reading = device[2]

\* C4: when buffer[0] differs from the reference byte, si8900_get_reading
\* returns FAILED as the channel and as the value, whatever the data bytes.
C4_MismatchFails ==
    (pc = "gr_ret" /\ buffer[0] # ref_byte) =>
       /\ new_read.inch = FAILED
       /\ new_read.reading = FAILED

\* a well-formed response to another command was decoded
C4_Witness ==
    /\ pc = "gr_ret"
    /\ buffer = DeviceResponse(GP_SINGLE_READ_0, 2, 682)
    /\ ref_byte = GP_SINGLE_READ_1
    /\ new_read = Reading(GP_SINGLE_READ_0, FAILED, FAILED)

\* C5: a decode whose echo byte matches the reference byte never returns
\* FAILED as the value nor as the channel.
C5_SentinelDistinct ==
    (pc = "gr_ret" /\ buffer[0] = ref_byte) =>
       /\ new_read.reading # FAILED
       /\ new_read.inch # FAILED

(***************************************************************************)
(* Properties of the oversampled read.                                     *)
(***************************************************************************)
OversampleEnded == pc \in {"os_ret", "os_trap"}

\* C6: with sample_count in 1..255 and every attempt decoding successfully
\* to a value in 0..1023, the value returned is the sum of the values
\* divided by sample_count, rounded down, with no wrap-around.
C6_ExactMean ==
    (/\ OversampleEnded
     /\ sample_count \in 1..255
     /\ matched = sample_count
     /\ inRange) =>
       /\ pc = "os_ret"
       /\ temp.reading = matchedSum \div sample_count

\* C7: when no attempt decodes successfully (every echo byte mismatches, or
\* sample_count is 0) the result has FAILED as channel and as value, and no
\* division by zero is performed.
C7_AllFailed ==
    (OversampleEnded /\ matched = 0) =>
       /\ pc = "os_ret"
       /\ ~divzero
       /\ temp.inch = FAILED
       /\ temp.reading = FAILED

\* C8: a failed sample is only excluded: when at least one attempt has a
\* matching echo byte, all sample_count attempts are made and the value
\* returned is the sum of the values decoded in the matching attempts
\* divided by their number, rounded down.
C8_FailedExcluded ==
    (OversampleEnded /\ matched >= 1) =>
       /\ pc = "os_ret"
       /\ i = sample_count
       /\ temp.reading = matchedSum \div matched

(***************************************************************************)
(* Properties of the command bytes.                                        *)
(***************************************************************************)
\* bit k of x
Bit(x, k) == (x \div 2^k) % 2

SendCmdInFlight == pc \in {"sc_txwait", "sc_rxwait", "sc_ret"}

\* C11, as claimed: the byte built from gain p, mode m, reference v and
\* channel n has bits 7:6 = 11, bits 5:4 = n, bit 3 = v, bit 2 = m, bit 0 = p
\* and bit 1 = 0.
C11_Bit2IsMode ==
    (SendCmdInFlight /\ selection.kind = "fields") =>
       /\ Bit(cmd_byte, 7) = 1
       /\ Bit(cmd_byte, 6) = 1
       /\ 2 * Bit(cmd_byte, 5) + Bit(cmd_byte, 4) = selection.inch
       /\ Bit(cmd_byte, 3) = selection.ref
       /\ Bit(cmd_byte, 2) = selection.mode
       /\ Bit(cmd_byte, 1) = 0
       /\ Bit(cmd_byte, 0) = selection.pga

\* C11, amended: the byte built from gain p, mode m, reference v and channel
\* n has bits 7:6 = 11, bits 5:4 = n, bit 3 = v, bit 1 = m, bit 0 = p and
\* bit 2 = 0.
C11_CommandLayout ==
    (SendCmdInFlight /\ selection.kind = "fields") =>
       /\ cmd_byte \in 0..255
       /\ Bit(cmd_byte, 7) = 1
       /\ Bit(cmd_byte, 6) = 1
       /\ 2 * Bit(cmd_byte, 5) + Bit(cmd_byte, 4) = selection.inch
       /\ Bit(cmd_byte, 3) = selection.ref
       /\ Bit(cmd_byte, 2) = 0
       /\ Bit(cmd_byte, 1) = selection.mode
       /\ Bit(cmd_byte, 0) = selection.pga

\* the byte for gain 1, stream, external reference, channel 2 was sent and
\* echoed
C11_Witness ==
    /\ pc = "sc_ret"
    /\ selection = Selection("fields", 1, 1, 1, 2)
    /\ cmd_byte = 235

\* C15: GP_SINGLE_READ_n selects input channel n, the reference VDD, the
\* gain of .5 and the single read mode value MODE_0, not the stream value.
C15_PresetIsSingleRead ==
    (SendCmdInFlight /\ selection.kind = "preset") =>
       /\ cmd_byte = si8900_cfg(PgaField(selection.pga), ModeField(selection.mode),
                                RefField(selection.ref), InchField(selection.inch))
       /\ BitAnd(cmd_byte, MODE_1) = MODE_0

(***************************************************************************)
(* Properties of bit_reverse.                                              *)
(***************************************************************************)
\* C12: bit_reverse is an involution on 16-bit words:
\* bit_reverse(bit_reverse(x)) = x for every x in 0..65535.
C12_Involution ==
    pc = "br_ret2" => twice = num

\* C13: bit i of bit_reverse(x) is bit 15 - i of x, for every x in 0..65535
\* and i in 0..15; so bit_reverse(0x0001) = 0x8000, bit_reverse(0x8000) =
\* 0x0001 and bit_reverse(0x0000) = 0x0000.
C13_FullWidthReversal ==
    pc \in {"br_ret", "br_ret2"} =>
       /\ \A k \in 0..15 : Bit(reverse, k) = Bit(num, 15 - k)
       /\ num = 1 => reverse = 32768
       /\ num = 32768 => reverse = 1
       /\ num = 0 => reverse = 0

(***************************************************************************)
(* More properties of the transport operations.                            *)
(***************************************************************************)
HandshakeInFlight == pc \in {"ab_wait", "ab_ret"}

\* C14: a byte is written to the transmit buffer only when the transmit
\* flag was seen set, and a byte is read from the receive buffer only when
\* the receive flag was seen set.
C14_PolledBeforeTransfer ==
    [][/\ (txlog' # txlog /\ txlog' # <<>>) => UART_TX_IFG \in UART_IFG_REG
       /\ (rxlog' # rxlog /\ rxlog' # <<>>) => UART_RX_IFG \in UART_IFG_REG]_vars

\* C16: once a byte other than CONFIRM was evaluated both flags are 0,
\* whatever they were before, so a CONFIRM read before it does not count:
\* a CONFIRM that follows it is the first of a new pair.
C16_MismatchClearsFlags ==
    HandshakeInFlight =>
       /\ (rxlog # <<>> /\ Last(rxlog) # CONFIRM) =>
             /\ Code_receive = 0
             /\ Code_confirm = 0
       /\ (/\ Len(rxlog) >= 2
           /\ rxlog[Len(rxlog) - 1] # CONFIRM
           /\ Last(rxlog) = CONFIRM) =>
             /\ Code_receive = 1
             /\ Code_confirm = 0
             /\ pc = "ab_wait"

\* CONFIRM, another byte, CONFIRM were read: the handshake waits for more
C16_Witness ==
    /\ pc = "ab_wait"
    /\ rxlog = <<CONFIRM, CAL_BYTE, CONFIRM>>
    /\ Code_receive = 1
    /\ Code_confirm = 0

\* C17: the handshake returns 0 in the iteration that reads the second byte
\* of the first pair of consecutive CONFIRM bytes and reads nothing after
\* it; and once the second byte of such a pair is in the receive buffer,
\* the handshake does return 0.
C17_SuccessAtFirstPair ==
    /\ [](HandshakeInFlight =>
            \A n \in 2..Len(rxlog) :
               (rxlog[n - 1] = CONFIRM /\ rxlog[n] = CONFIRM) =>
                  /\ n = Len(rxlog)
                  /\ pc = "ab_ret"
                  /\ retval = <<0>>)
    /\ (/\ pc = "ab_wait"
        /\ rxlog # <<>>
        /\ Last(rxlog) = CONFIRM
        /\ UART_RX_IFG \in UART_IFG_REG
        /\ UART_RX_BUFF = CONFIRM) ~> (pc = "ab_ret" /\ retval = <<0>>)

\* the handshake returned on the first pair, after one other byte
C17_Witness ==
    /\ pc = "ab_ret"
    /\ retval = <<0>>
    /\ rxlog = <<CAL_BYTE, CONFIRM, CONFIRM>>

\* the bytes read so far that are CONFIRM, and those that are not
Matches == Cardinality({n \in 1..Len(rxlog) : rxlog[n] = CONFIRM})

Mismatches == Cardinality({n \in 1..Len(rxlog) : rxlog[n] # CONFIRM})

\* C18: CAL_BYTE is written once before the loop, once after each CONFIRM
\* read and twice after each other byte read, and never while waiting: the
\* writes number 1 + matches + 2 * mismatches.
C18_CalibrationSchedule ==
    HandshakeInFlight =>
       /\ \A n \in 1..Len(txlog) : txlog[n] = CAL_BYTE
       /\ Len(txlog) = 1 + Matches + 2 * Mismatches

(***************************************************************************)
(* More properties of the decoder.                                         *)
(***************************************************************************)
\* C19: for every buffer whose first byte equals the reference byte, with
\* any data bytes, the channel decoded is in 0..2 and the value in 0..1023.
C19_DecodedRange ==
    (pc = "gr_ret" /\ buffer[0] = ref_byte) =>
       /\ new_read.inch \in 0..2
       /\ new_read.reading \in 0..1023

\* C20: the oversampled result is never half failed: the channel returned
\* is FAILED exactly when no attempt decoded successfully, and is a valid
\* channel when at least one did.  Stated for the calls that return without
\* having divided by zero, where every value returned is defined.
C20_NeverHalfFailed ==
    (pc = "os_ret" /\ ~divzero) =>
       /\ (temp.inch = FAILED) <=> (matched = 0)
       /\ matched >= 1 => temp.inch \in 0..2

=============================================================================
